---- MODULE Spec2Model ----
(***************************************************************************)
(* Model of src/speech_to_text.py: the pronunciation analyser.             *)
(*                                                                         *)
(* A text (a Python str) is a sequence of characters, each character a     *)
(* one-character string; a word is a non-empty text without whitespace.    *)
(* Characters outside ASCII are written by an ASCII name, one token per    *)
(* character, its code point ("U+00E7", "U+C548"): str.lower() leaves all  *)
(* of those used here unchanged.                                           *)
(*                                                                         *)
(* A float that the code computes as 2.0*M/T (SequenceMatcher.ratio) is    *)
(* kept as the exact pair <<2*M, T>>; comparisons cross-multiply.          *)
(***************************************************************************)
EXTENDS Integers, Sequences, FiniteSets, TLC

VARIABLES pc, language, audio, model, recognized_text, reference_text, opcodes,
          recognized_phonemes, reference_phonemes, mistakes, corrected_text,
          feedback, score, result

vars == <<pc, language, audio, model, recognized_text, reference_text, opcodes,
          recognized_phonemes, reference_phonemes, mistakes, corrected_text,
          feedback, score, result>>

-----------------------------------------------------------------------------
(* Bounds of the model.                                                    *)

\* the largest number of results the recogniser collects for one audio file
MaxResults == 2
\* the largest number of words of a text handed directly to detect_mistakes
MaxWords == 3
\* the largest number of incorrect_word mistakes handed directly to calculate_score
MaxMistakes == 21
\* the largest number of pronunciation, and of extra_word, mistakes handed to it
MaxOther == 2

-----------------------------------------------------------------------------
(* Python str operations.                                                  *)

Whitespace == {" ", "\t", "\n"}

UpperLetters == <<"A","B","C","D","E","F","G","H","I","J","K","L","M",
                  "N","O","P","Q","R","S","T","U","V","W","X","Y","Z">>
LowerLetters == <<"a","b","c","d","e","f","g","h","i","j","k","l","m",
                  "n","o","p","q","r","s","t","u","v","w","x","y","z">>
LowerOf == [c \in {UpperLetters[k] : k \in 1..26} |->
               LowerLetters[CHOOSE k \in 1..26 : UpperLetters[k] = c]]

\* str.lower() on one character
LowerChar(c) == IF c \in DOMAIN LowerOf THEN LowerOf[c] ELSE c

\* str.lower()
Lower(s) == [k \in 1..Len(s) |-> LowerChar(s[k])]

RECURSIVE SplitFrom(_, _, _, _)
SplitFrom(s, k, cur, acc) ==
    IF k > Len(s)
    THEN IF cur = <<>> THEN acc ELSE Append(acc, cur)
    ELSE IF s[k] \in Whitespace
         THEN SplitFrom(s, k + 1, <<>>, IF cur = <<>> THEN acc ELSE Append(acc, cur))
         ELSE SplitFrom(s, k + 1, Append(cur, s[k]), acc)

\* str.split() without arguments: the maximal runs of non-whitespace
Split(s) == SplitFrom(s, 1, <<>>, <<>>)

RECURSIVE Join(_)
\* " ".join(words)
Join(words) ==
    IF words = <<>> THEN <<>>
    ELSE IF Len(words) = 1 THEN words[1]
    ELSE words[1] \o <<" ">> \o Join(Tail(words))

RECURSIVE LStrip(_)
LStrip(s) == IF s # <<>> /\ s[1] \in Whitespace THEN LStrip(Tail(s)) ELSE s

RECURSIVE RStrip(_)
RStrip(s) ==
    IF s # <<>> /\ s[Len(s)] \in Whitespace
    THEN RStrip(SubSeq(s, 1, Len(s) - 1))
    ELSE s

\* str.strip()
Strip(s) == RStrip(LStrip(s))

-----------------------------------------------------------------------------
(* difflib.SequenceMatcher(None, a, b), as the program uses it: no junk    *)
(* predicate, and sequences shorter than the 200 elements at which the     *)
(* automatic junk heuristic starts.  Indices are Python's (from 0).        *)

RECURSIVE MatchLen(_, _, _, _, _, _)
\* the length of the longest common run a[i:i+k] = b[j:j+k] inside a[:ahi], b[:bhi]
MatchLen(a, b, i, j, ahi, bhi) ==
    IF i < ahi /\ j < bhi /\ a[i + 1] = b[j + 1]
    THEN 1 + MatchLen(a, b, i + 1, j + 1, ahi, bhi)
    ELSE 0

\* find_longest_match(alo, ahi, blo, bhi): the longest matching block, of the
\* longest the one starting earliest in a, of those the one starting earliest in b
FindLongestMatch(a, b, alo, ahi, blo, bhi) ==
    LET cand == {p \in (alo..(ahi - 1)) \X (blo..(bhi - 1)) : a[p[1] + 1] = b[p[2] + 1]}
        sizes == {MatchLen(a, b, p[1], p[2], ahi, bhi) : p \in cand}
        bestsize == CHOOSE k \in sizes : \A x \in sizes : x <= k
        longest == {p \in cand : MatchLen(a, b, p[1], p[2], ahi, bhi) = bestsize}
        besti == CHOOSE i \in {p[1] : p \in longest} : \A p \in longest : i <= p[1]
        bestj == CHOOSE j \in {p[2] : p \in {q \in longest : q[1] = besti}} :
                    \A p \in longest : p[1] = besti => j <= p[2]
    IN  IF cand = {} THEN <<alo, blo, 0>> ELSE <<besti, bestj, bestsize>>

RECURSIVE MatchingBlocksIn(_, _, _, _, _, _)
\* the blocks get_matching_blocks collects for a[alo:ahi], b[blo:bhi], sorted
MatchingBlocksIn(a, b, alo, ahi, blo, bhi) ==
    LET x == FindLongestMatch(a, b, alo, ahi, blo, bhi)
        i == x[1]
        j == x[2]
        k == x[3]
    IN  IF k = 0 THEN <<>>
        ELSE (IF alo < i /\ blo < j
              THEN MatchingBlocksIn(a, b, alo, i, blo, j) ELSE <<>>)
             \o <<x>>
             \o (IF i + k < ahi /\ j + k < bhi
                 THEN MatchingBlocksIn(a, b, i + k, ahi, j + k, bhi) ELSE <<>>)

RECURSIVE CollapseBlocks(_, _, _)
\* get_matching_blocks' second pass: adjacent blocks are merged into one
CollapseBlocks(blocks, cur, acc) ==
    IF blocks = <<>>
    THEN IF cur[3] > 0 THEN Append(acc, cur) ELSE acc
    ELSE LET x == blocks[1]
         IN  IF cur[1] + cur[3] = x[1] /\ cur[2] + cur[3] = x[2]
             THEN CollapseBlocks(Tail(blocks), <<cur[1], cur[2], cur[3] + x[3]>>, acc)
             ELSE CollapseBlocks(Tail(blocks), x,
                                 IF cur[3] > 0 THEN Append(acc, cur) ELSE acc)

\* get_matching_blocks() without the closing sentinel
GetMatchingBlocks_NoSentinel(a, b) ==
    CollapseBlocks(MatchingBlocksIn(a, b, 0, Len(a), 0, Len(b)), <<0, 0, 0>>, <<>>)

\* get_matching_blocks(): the merged blocks, then the sentinel (len(a), len(b), 0)
GetMatchingBlocks(a, b) ==
    Append(CollapseBlocks(MatchingBlocksIn(a, b, 0, Len(a), 0, Len(b)),
                          <<0, 0, 0>>, <<>>),
           <<Len(a), Len(b), 0>>)

RECURSIVE OpcodesFrom(_, _, _, _)
OpcodesFrom(blocks, i, j, acc) ==
    IF blocks = <<>> THEN acc
    ELSE LET ai == blocks[1][1]
             bj == blocks[1][2]
             size == blocks[1][3]
             tag == IF i < ai /\ j < bj THEN "replace"
                    ELSE IF i < ai THEN "delete"
                    ELSE IF j < bj THEN "insert"
                    ELSE ""
             gap == IF tag # "" THEN <<[tag |-> tag, i1 |-> i, i2 |-> ai, j1 |-> j, j2 |-> bj]>>
                    ELSE <<>>
             eq == IF size > 0
                   THEN <<[tag |-> "equal", i1 |-> ai, i2 |-> ai + size,
                           j1 |-> bj, j2 |-> bj + size]>>
                   ELSE <<>>
         IN  OpcodesFrom(Tail(blocks), ai + size, bj + size, acc \o gap \o eq)

\* get_opcodes(): how to turn a into b
GetOpcodes(a, b) == OpcodesFrom(GetMatchingBlocks(a, b), 0, 0, <<>>)

RECURSIVE SumSizes(_)
SumSizes(blocks) == IF blocks = <<>> THEN 0 ELSE blocks[1][3] + SumSizes(Tail(blocks))

\* ratio() = 2.0*matches/length, 1.0 when both are empty: the pair <<num, den>>
Ratio(a, b) ==
    LET length == Len(a) + Len(b)
    IN  IF length > 0 THEN <<2 * SumSizes(GetMatchingBlocks(a, b)), length>>
        ELSE <<1, 1>>

\* r > n/d and r < n/d for a ratio r = <<num, den>>, den > 0
RatioGT(r, n, d) == r[1] * d > n * r[2]
RatioLT(r, n, d) == r[1] * d < n * r[2]

-----------------------------------------------------------------------------
(* Configuration and tables of the program.                                *)

DEBUG == TRUE
MIN_AUDIO_LENGTH_MS == 500
SAMPLE_RATE == 16000

\* the keys of SUPPORTED_LANGUAGES
SUPPORTED_LANGUAGES == {"en", "fr", "de", "nl", "ko"}

LANGUAGE_TIPS ==
    [fr |-> <<"Nasal vowels...", "Final consonants...", "French 'r'...">>,
     de |-> <<"Consonants clearly...", "Vowel length...", "'ch' sounds...">>,
     nl |-> <<"Guttural 'g'...", "Vowel length...", "'ui' diphthong...">>,
     ko |-> <<"Tense consonants...", "Vowel combinations...", "Even syllables...">>,
     en |-> <<"Stress syllables...", "Vowel sounds...", "Final consonants...">>]

COMMON_PHRASES ==
    [fr |-> << <<"b","o","n","j","o","u","r">>,
               <<"c","o","m","m","e","n","t"," ","U+00E7","a"," ","v","a">>,
               <<"j","e"," ","m","'","a","p","p","e","l","l","e">> >>,
     de |-> << <<"h","a","l","l","o">>,
               <<"w","i","e"," ","g","e","h","t","'","s">>,
               <<"m","e","i","n"," ","n","a","m","e"," ","i","s","t">> >>,
     nl |-> << <<"h","a","l","l","o">>,
               <<"h","o","e"," ","g","a","a","t"," ","h","e","t">>,
               <<"m","i","j","n"," ","n","a","a","m"," ","i","s">> >>,
     ko |-> << <<"U+C548","U+B155","U+D558","U+C138","U+C694">>,
               <<"U+C774","U+B984","U+C774"," ","U+BB50","U+C608","U+C694">>,
               <<"U+AC10","U+C0AC","U+D569","U+B2C8","U+B2E4">> >>,
     en |-> << <<"h","e","l","l","o">>,
               <<"h","o","w"," ","a","r","e"," ","y","o","u">>,
               <<"m","y"," ","n","a","m","e"," ","i","s">> >>]

\* the placeholder of a mistake without a correct word
SILENCE == <<"[","s","i","l","e","n","c","e","]">>

\* the languages detect_mistakes calls the phonemizer for
PHONEME_LANGUAGES == {"en", "fr", "de", "nl", "ko"}

\* 0.7 and 0.85 as exact fractions <<n, d>>
REFERENCE_THRESHOLD == <<7, 10>>
PHONEME_THRESHOLD == <<85, 100>>

\* dict.get(lang_code, table['en'])
Get(table, lang_code) ==
    IF lang_code \in DOMAIN table THEN table[lang_code] ELSE table["en"]

-----------------------------------------------------------------------------
(* get_reference_text                                                      *)

RECURSIVE FirstPhrase(_, _, _)
\* the for loop over the phrases: return at the first one whose ratio is > 0.7
FirstPhrase(words, phrases, recognized) ==
    IF phrases = <<>> THEN recognized
    ELSE IF RatioGT(Ratio(words, Split(phrases[1])),
                    REFERENCE_THRESHOLD[1], REFERENCE_THRESHOLD[2])
         THEN phrases[1]
         ELSE FirstPhrase(words, Tail(phrases), recognized)

\* get_reference_text comparing the words as they were spoken, not lowercased
get_reference_text_NoLower(recognized, lang_code) ==
    FirstPhrase(Split(recognized), Get(COMMON_PHRASES, lang_code), recognized)

get_reference_text(recognized, lang_code) ==
    FirstPhrase(Split(Lower(recognized)), Get(COMMON_PHRASES, lang_code), recognized)

-----------------------------------------------------------------------------
(* detect_mistakes                                                         *)

\* the indices i of range(i1, i2) with i < n, in order
RangeBelow(i1, i2, n) ==
    LET hi == IF i2 < n THEN i2 ELSE n
    IN  IF hi > i1 THEN [k \in 1..(hi - i1) |-> i1 + k - 1] ELSE <<>>

\* the mistakes one opcode appends
OpcodeMistakes(op, recognized_words, reference_words) ==
    IF op.tag \in {"replace", "delete"}
    THEN LET idx == RangeBelow(op.i1, op.i2, Len(recognized_words))
         IN  [k \in DOMAIN idx |->
                [word |-> recognized_words[idx[k] + 1],
                 correct |-> IF op.j1 < Len(reference_words)
                             THEN reference_words[op.j1 + 1] ELSE <<>>,
                 position |-> idx[k],
                 type |-> "incorrect_word"]]
    ELSE IF op.tag = "insert"
    THEN LET idx == RangeBelow(op.i1, op.i2, op.i2)
         IN  [k \in DOMAIN idx |->
                [word |-> recognized_words[idx[k] + 1],
                 correct |-> <<>>,
                 position |-> idx[k],
                 type |-> "extra_word"]]
    ELSE <<>>

\* a replace span corrected by the reference words of the span
OpcodeCorrected_Span(op, recognized_words, reference_words) ==
    IF op.tag = "replace" THEN SubSeq(reference_words, op.j1 + 1, op.j2)
    ELSE IF op.tag = "delete"
    THEN [k \in 1..(op.i2 - op.i1) |->
            IF op.j1 < Len(reference_words) THEN reference_words[op.j1 + 1] ELSE SILENCE]
    ELSE IF op.tag = "equal"
    THEN SubSeq(recognized_words, op.i1 + 1, op.i2)
    ELSE <<>>

\* the words one opcode appends to corrected_words
OpcodeCorrected(op, recognized_words, reference_words) ==
    IF op.tag \in {"replace", "delete"}
    THEN LET ms == OpcodeMistakes(op, recognized_words, reference_words)
         IN  [k \in DOMAIN ms |->
                IF ms[k].correct # <<>> THEN ms[k].correct ELSE SILENCE]
    ELSE IF op.tag = "equal"
    THEN SubSeq(recognized_words, op.i1 + 1, op.i2)
    ELSE <<>>

RECURSIVE WalkOpcodes(_, _, _, _, _)
\* the loop over get_opcodes(): <<mistakes, corrected_words>>
WalkOpcodes(ops, recognized_words, reference_words, ms, cw) ==
    IF ops = <<>> THEN <<ms, cw>>
    ELSE WalkOpcodes(Tail(ops), recognized_words, reference_words,
                     ms \o OpcodeMistakes(ops[1], recognized_words, reference_words),
                     cw \o OpcodeCorrected(ops[1], recognized_words, reference_words))

\* the loop over the mistakes leaving at the first incorrect_word it changed
Escalate_First(ms) ==
    [k \in DOMAIN ms |->
        IF ms[k].type = "incorrect_word"
           /\ \A h \in 1..(k - 1) : ms[h].type # "incorrect_word"
        THEN [ms[k] EXCEPT !.type = "pronunciation"]
        ELSE ms[k]]

\* every incorrect_word mistake becomes a pronunciation mistake
Escalate(ms) ==
    [k \in DOMAIN ms |->
        IF ms[k].type = "incorrect_word"
        THEN [ms[k] EXCEPT !.type = "pronunciation"]
        ELSE ms[k]]

\* the outcome of one phonemize() call: a text, or an exception
NotCalled == [status |-> "not_called", out |-> <<>>]
Failed == [status |-> "failed", out |-> <<>>]
Phonemes(t) == [status |-> "ok", out |-> t]

\* the escalation test on the two phoneme strings
LowPhonemeRatio(rp, fp) ==
    RatioLT(Ratio(Split(rp), Split(fp)), PHONEME_THRESHOLD[1], PHONEME_THRESHOLD[2])

\* a failed phonemize() call taken as the empty string
AfterPhonemes_OnFailure(ms, lang_code, p1, p2) ==
    IF lang_code \in PHONEME_LANGUAGES /\ p1.status # "not_called"
       /\ (p1.out # p2.out \/ p1.status # "ok" \/ p2.status # "ok")
    THEN Escalate(ms)
    ELSE ms

\* the mistakes after the phonemizer block; p1, p2 are the outcomes of the two calls
AfterPhonemes(ms, lang_code, p1, p2) ==
    IF lang_code \in PHONEME_LANGUAGES /\ p1.status = "ok" /\ p2.status = "ok"
       /\ LowPhonemeRatio(p1.out, p2.out)
    THEN Escalate(ms)
    ELSE ms

-----------------------------------------------------------------------------
(* generate_feedback                                                       *)

\* one line of feedback: the format string and what it is filled with
Line(fmt, n, word, correct) == [fmt |-> fmt, n |-> n, word |-> word, correct |-> correct]
Fixed(s) == Line(s, 0, <<>>, <<>>)

PRAISE == "Excellent pronunciation! No mistakes detected."

\* list[:n]
Take(s, n) == SubSeq(s, 1, IF Len(s) < n THEN Len(s) ELSE n)

\* [m for m in mistakes if m["type"] == type]
OfType(ms, type) == SelectSeq(ms, LAMBDA m : m.type = type)

FixedLines(ss) == [k \in DOMAIN ss |-> Fixed(ss[k])]

\* generate_feedback giving every tip of the language after the praise
generate_feedback_AllTips(ms, lang_code) ==
    IF ms = <<>>
    THEN <<Fixed(PRAISE)>> \o FixedLines(Get(LANGUAGE_TIPS, lang_code))
    ELSE <<Fixed("\nTips for improvement:")>> \o FixedLines(Get(LANGUAGE_TIPS, lang_code))

generate_feedback(ms, lang_code) ==
    IF ms = <<>>
    THEN <<Fixed(PRAISE)>> \o FixedLines(Take(Get(LANGUAGE_TIPS, lang_code), 2))
    ELSE LET pronunciation_errors == OfType(ms, "pronunciation")
             word_errors == OfType(ms, "incorrect_word")
             extra_words == OfType(ms, "extra_word")
             p3 == Take(pronunciation_errors, 3)
             w3 == Take(word_errors, 3)
         IN  (IF pronunciation_errors # <<>>
              THEN <<Line("Pronunciation issues ({n}):", Len(pronunciation_errors), <<>>, <<>>)>>
                   \o [k \in DOMAIN p3 |->
                        Line("* '{word}' sounded like {word} instead of {correct}",
                             0, p3[k].word, p3[k].correct)]
              ELSE <<>>)
             \o (IF word_errors # <<>>
                 THEN <<Line("Incorrect words ({n}):", Len(word_errors), <<>>, <<>>)>>
                      \o [k \in DOMAIN w3 |->
                            IF w3[k].correct # <<>>
                            THEN Line("* Used '{word}' instead of '{correct}'",
                                      0, w3[k].word, w3[k].correct)
                            ELSE Line("* Unrecognized word: '{word}'", 0, w3[k].word, <<>>)]
                 ELSE <<>>)
             \o (IF extra_words # <<>>
                 THEN <<Line("Extra words detected ({n})", Len(extra_words), <<>>, <<>>)>>
                 ELSE <<>>)
             \o <<Fixed("\nTips for improvement:")>>
             \o FixedLines(Get(LANGUAGE_TIPS, lang_code))

-----------------------------------------------------------------------------
(* calculate_score: the score is the exact fraction <<num, den>>, den > 0  *)

RECURSIVE Penalty(_)
\* sum(3 if pronunciation else 2 if incorrect_word else 1 for m in mistakes)
Penalty(ms) ==
    IF ms = <<>> THEN 0
    ELSE (IF ms[1].type = "pronunciation" THEN 3
          ELSE IF ms[1].type = "incorrect_word" THEN 2
          ELSE 1) + Penalty(Tail(ms))

Min(x, y) == IF x < y THEN x ELSE y
Max(x, y) == IF x > y THEN x ELSE y

\* calculate_score without max(0, min(100, ...))
calculate_score_NoClamp(recognized, reference, ms) ==
    IF reference = <<>> THEN <<0, 1>>
    ELSE LET similarity == Ratio(Lower(recognized), Lower(reference))
         IN  <<similarity[1] * 100 - Min(Penalty(ms), 40) * similarity[2], similarity[2]>>

\* calculate_score without the cap of the penalty
calculate_score_NoCap(recognized, reference, ms) ==
    IF reference = <<>> THEN <<0, 1>>
    ELSE LET similarity == Ratio(Lower(recognized), Lower(reference))
             den == similarity[2]
         IN  <<Max(0, Min(100 * den, similarity[1] * 100 - Penalty(ms) * den)), den>>

calculate_score(recognized, reference, ms) ==
    IF reference = <<>> THEN <<0, 1>>
    ELSE LET similarity == Ratio(Lower(recognized), Lower(reference))
             den == similarity[2]
             base_score == similarity[1] * 100
             penalty == Penalty(ms)
         IN  <<Max(0, Min(100 * den, base_score - Min(penalty, 40) * den)), den>>

-----------------------------------------------------------------------------
(* The inputs: the files, what the collaborators answer, the arguments.    *)

\* the sequences over S of length at most n
SeqsUpTo(S, n) == UNION {[1..k -> S] : k \in 0..n}

\* the language codes a caller passes: the supported ones and another one
Languages == SUPPORTED_LANGUAGES \cup {"xx"}

\* a file that is missing, one that does not decode, one that is too short,
\* and a stereo recording of exactly the minimum length
AudioFiles ==
    {[exists |-> FALSE, decodable |-> FALSE, duration_ms |-> 0, channels |-> 0, frame_rate |-> 0],
     [exists |-> TRUE, decodable |-> FALSE, duration_ms |-> 0, channels |-> 0, frame_rate |-> 0],
     [exists |-> TRUE, decodable |-> TRUE, duration_ms |-> 400, channels |-> 1, frame_rate |-> 16000],
     [exists |-> TRUE, decodable |-> TRUE, duration_ms |-> 500, channels |-> 2, frame_rate |-> 44100]}

\* the texts one Result() of the recogniser holds, by the model's language
ResultTexts ==
    [en |-> {<<>>, <<"h","e","l","l","o">>, <<"h","o","w"," ","a","r","e"," ","y","o","u">>,
             <<"h","o","w"," ","a","r","e">>, <<"H","o","w">>, <<"y","o","u">>},
     fr |-> {<<>>, <<"b","o","n","j","o","u","r">>,
             <<"c","o","m","m","e","n","t"," ","U+00E7","a"," ","v","a">>, <<"v","a">>},
     de |-> {<<>>, <<"H","a","l","l","o">>, <<"w","i","e"," ","g","e","h","t","'","s">>,
             <<"w","i","e">>},
     nl |-> {<<>>, <<"h","a","l","l","o">>, <<"h","o","e"," ","g","a","a","t">>,
             <<"h","e","t">>},
     ko |-> {<<>>, <<"U+C548","U+B155","U+D558","U+C138","U+C694">>,
             <<"U+C774","U+B984","U+C774">>, <<"U+BB50","U+C608","U+C694">>}]

\* the strings phonemize() returns
PhonemeTexts == {<<"h","a"," ","j","u">>, <<"h","a"," ","w","i">>}
PhonemizeOutcomes == {Failed} \cup {Phonemes(t) : t \in PhonemeTexts}

\* the texts handed directly to detect_mistakes
UnitWords == {<<"h","i">>, <<"Y","o">>}
UnitTexts == {Join(ws) : ws \in SeqsUpTo(UnitWords, MaxWords)} \cup {<<" ">>}

\* the texts handed directly to get_reference_text: what any model recognises
AllResultTexts == UNION {ResultTexts[l] : l \in DOMAIN ResultTexts}
ReferenceInputs == {Strip(Join(rs)) : rs \in SeqsUpTo(AllResultTexts, MaxResults)}

\* the texts handed directly to calculate_score
ScoreTexts == {<<>>, <<" ">>, <<"h","i">>, <<"H","i"," ","y","o">>, <<"y","o"," ","h","i">>}

\* the type of the k-th mistake of a list with np pronunciation, ni incorrect_word
\* and then extra_word mistakes
MistakeList(np, ni, ne) ==
    [k \in 1..(np + ni + ne) |->
        [word |-> <<"h","i">>,
         correct |-> IF k <= np + ni THEN <<"y","o">> ELSE <<>>,
         position |-> k - 1,
         type |-> IF k <= ni THEN "incorrect_word"
                  ELSE IF k <= ni + np THEN "pronunciation"
                  ELSE "extra_word"]]

MistakeLists ==
    {MistakeList(np, ni, ne) : np \in 0..MaxOther, ni \in 0..MaxMistakes, ne \in 0..MaxOther}

-----------------------------------------------------------------------------
(* analyze_pronunciation, one action per call it makes                     *)

NoAudio == [exists |-> FALSE, decodable |-> FALSE, duration_ms |-> 0, channels |-> 0, frame_rate |-> 0]
NoScore == <<0, 0>>
NoResult == [pending |-> TRUE]

\* the except clause: the error result
error_info(type, message) ==
    IF DEBUG
    THEN [error |-> "Analysis failed", message |-> message, type |-> type,
          timestamp |-> "now", traceback |-> "traceback"]
    ELSE [error |-> "Analysis failed", message |-> message, type |-> type,
          timestamp |-> "now"]

\* an exception reaches the except clause, which returns the error result
Raise(type, message) ==
    /\ pc' = "done"
    /\ result' = error_info(type, message)

Init ==
    /\ pc = "validate_audio"
    /\ language \in Languages
    /\ audio \in AudioFiles
    /\ model = ""
    /\ recognized_text = <<>>
    /\ reference_text = <<>>
    /\ opcodes = <<>>
    /\ recognized_phonemes = NotCalled
    /\ reference_phonemes = NotCalled
    /\ mistakes = <<>>
    /\ corrected_text = <<>>
    /\ feedback = <<>>
    /\ score = NoScore
    /\ result = NoResult

ValidateAudio ==
    /\ pc = "validate_audio"
    /\ IF ~audio.exists
       THEN Raise("FileNotFoundError", "Audio file not found")
       ELSE IF ~audio.decodable \/ audio.duration_ms < MIN_AUDIO_LENGTH_MS
       THEN Raise("ValueError", "Audio validation failed")
       ELSE pc' = "convert_audio" /\ result' = result
    /\ UNCHANGED <<language, audio, model, recognized_text, reference_text, opcodes,
                   recognized_phonemes, reference_phonemes, mistakes, corrected_text,
                   feedback, score>>

ConvertAudio ==
    /\ pc = "convert_audio"
    /\ \E ok \in BOOLEAN :
         IF ok
         THEN /\ audio' = [audio EXCEPT !.channels = 1, !.frame_rate = SAMPLE_RATE]
              /\ pc' = "load_model"
              /\ result' = result
         ELSE /\ Raise("ValueError", "Audio conversion failed")
              /\ audio' = audio
    /\ UNCHANGED <<language, model, recognized_text, reference_text, opcodes,
                   recognized_phonemes, reference_phonemes, mistakes, corrected_text,
                   feedback, score>>

LoadModel ==
    /\ pc = "load_model"
    /\ \E ok \in BOOLEAN :
         IF ok
         THEN /\ model' = IF language \in SUPPORTED_LANGUAGES THEN language ELSE "en"
              /\ pc' = "recognize_speech"
              /\ result' = result
         ELSE /\ Raise("ValueError", "Model loading failed")
              /\ model' = model
    /\ UNCHANGED <<language, audio, recognized_text, reference_text, opcodes,
                   recognized_phonemes, reference_phonemes, mistakes, corrected_text,
                   feedback, score>>

\* recognize_speech: the results joined and stripped, or an exception: the
\* ValueError of its except clause, or the UnboundLocalError of its finally
\* clause when the temporary file was never created
RecognizeSpeech ==
    /\ pc = "recognize_speech"
    /\ \/ \E results \in SeqsUpTo(ResultTexts[model], MaxResults) :
            /\ recognized_text' = Strip(Join(results))
            /\ pc' = "recognized"
            /\ result' = result
       \/ \E type \in {"ValueError", "UnboundLocalError"} :
            /\ Raise(type, "Speech recognition failed")
            /\ recognized_text' = recognized_text
    /\ UNCHANGED <<language, audio, model, reference_text, opcodes,
                   recognized_phonemes, reference_phonemes, mistakes, corrected_text,
                   feedback, score>>

\* if not recognized_text: return the "No speech detected" result
CheckRecognized ==
    /\ pc = "recognized"
    /\ IF recognized_text = <<>>
       THEN /\ result' = [error |-> "No speech detected",
                          debug |-> [duration_ms |-> audio.duration_ms,
                                     sample_rate |-> audio.frame_rate,
                                     channels |-> audio.channels]]
            /\ pc' = "done"
       ELSE /\ result' = result
            /\ pc' = "get_reference_text"
    /\ UNCHANGED <<language, audio, model, recognized_text, reference_text, opcodes,
                   recognized_phonemes, reference_phonemes, mistakes, corrected_text,
                   feedback, score>>

GetReferenceText ==
    /\ pc = "get_reference_text"
    /\ reference_text' = get_reference_text(recognized_text, language)
    /\ pc' = "detect_mistakes"
    /\ UNCHANGED <<language, audio, model, recognized_text, opcodes,
                   recognized_phonemes, reference_phonemes, mistakes, corrected_text,
                   feedback, score, result>>

\* detect_mistakes: the walk over the opcodes, then the phonemizer block; the
\* second phonemize() call is made only when the first returned
DetectMistakes ==
    /\ pc = "detect_mistakes"
    /\ LET recognized_words == Split(Lower(recognized_text))
           reference_words == Split(Lower(reference_text))
           ops == GetOpcodes(recognized_words, reference_words)
           built == WalkOpcodes(ops, recognized_words, reference_words, <<>>, <<>>)
       IN  /\ opcodes' = ops
           /\ corrected_text' = Join(built[2])
           /\ \E o1 \in PhonemizeOutcomes, o2 \in PhonemizeOutcomes :
                LET p1 == IF language \in PHONEME_LANGUAGES THEN o1 ELSE NotCalled
                    p2 == IF p1.status = "ok" THEN o2 ELSE NotCalled
                IN  /\ recognized_phonemes' = p1
                    /\ reference_phonemes' = p2
                    /\ mistakes' = AfterPhonemes(built[1], language, p1, p2)
    /\ pc' = "generate_feedback"
    /\ UNCHANGED <<language, audio, model, recognized_text, reference_text,
                   feedback, score, result>>

GenerateFeedback ==
    /\ pc = "generate_feedback"
    /\ feedback' = generate_feedback(mistakes, language)
    /\ pc' = "calculate_score"
    /\ UNCHANGED <<language, audio, model, recognized_text, reference_text, opcodes,
                   recognized_phonemes, reference_phonemes, mistakes, corrected_text,
                   score, result>>

CalculateScore ==
    /\ pc = "calculate_score"
    /\ score' = calculate_score(recognized_text, reference_text, mistakes)
    /\ pc' = "return"
    /\ UNCHANGED <<language, audio, model, recognized_text, reference_text, opcodes,
                   recognized_phonemes, reference_phonemes, mistakes, corrected_text,
                   feedback, result>>

\* the success result
ReturnResult ==
    /\ pc = "return"
    /\ result' = [original_text |-> recognized_text,
                  reference_text |-> reference_text,
                  corrected_text |-> corrected_text,
                  mistakes |-> mistakes,
                  feedback |-> feedback,
                  score |-> score,
                  language |-> language]
    /\ pc' = "done"
    /\ UNCHANGED <<language, audio, model, recognized_text, reference_text, opcodes,
                   recognized_phonemes, reference_phonemes, mistakes, corrected_text,
                   feedback, score>>

Next ==
    \/ ValidateAudio
    \/ ConvertAudio
    \/ LoadModel
    \/ RecognizeSpeech
    \/ CheckRecognized
    \/ GetReferenceText
    \/ DetectMistakes
    \/ GenerateFeedback
    \/ CalculateScore
    \/ ReturnResult

\* one call of analyze_pronunciation(audio_path, language)
Spec == Init /\ [][Next]_vars

-----------------------------------------------------------------------------
(* detect_mistakes, generate_feedback and calculate_score called in turn   *)
(* on any recognized text, reference text and language                     *)

InitClassify ==
    /\ pc = "detect_mistakes"
    /\ language \in Languages
    /\ audio = NoAudio
    /\ model = ""
    /\ recognized_text \in UnitTexts
    /\ reference_text \in UnitTexts
    /\ opcodes = <<>>
    /\ recognized_phonemes = NotCalled
    /\ reference_phonemes = NotCalled
    /\ mistakes = <<>>
    /\ corrected_text = <<>>
    /\ feedback = <<>>
    /\ score = NoScore
    /\ result = NoResult

NextClassify == DetectMistakes \/ GenerateFeedback \/ CalculateScore

SpecClassify == InitClassify /\ [][NextClassify]_vars

-----------------------------------------------------------------------------
(* calculate_score called on any texts and any list of mistakes            *)

InitScore ==
    /\ pc = "calculate_score"
    /\ language = "en"
    /\ audio = NoAudio
    /\ model = ""
    /\ recognized_text \in ScoreTexts
    /\ reference_text \in ScoreTexts
    /\ opcodes = <<>>
    /\ recognized_phonemes = NotCalled
    /\ reference_phonemes = NotCalled
    /\ mistakes \in MistakeLists
    /\ corrected_text = <<>>
    /\ feedback = <<>>
    /\ score = NoScore
    /\ result = NoResult

NextScore == CalculateScore

SpecScore == InitScore /\ [][NextScore]_vars

-----------------------------------------------------------------------------
(* get_reference_text called on any recognized text and language           *)

InitReference ==
    /\ pc = "get_reference_text"
    /\ language \in Languages
    /\ audio = NoAudio
    /\ model = ""
    /\ recognized_text \in ReferenceInputs
    /\ reference_text = <<>>
    /\ opcodes = <<>>
    /\ recognized_phonemes = NotCalled
    /\ reference_phonemes = NotCalled
    /\ mistakes = <<>>
    /\ corrected_text = <<>>
    /\ feedback = <<>>
    /\ score = NoScore
    /\ result = NoResult

NextReference == GetReferenceText

SpecReference == InitReference /\ [][NextReference]_vars

-----------------------------------------------------------------------------
(* The properties.                                                         *)

SuccessFields == {"original_text", "reference_text", "corrected_text", "mistakes",
                  "feedback", "score", "language"}
FailureFields == {"error", "message", "type", "timestamp"}

\* detect_mistakes has returned
Classified == pc \in {"generate_feedback", "calculate_score", "return", "done"}
                /\ "error" \notin DOMAIN result

RecognizedWords == Split(Lower(recognized_text))
ReferenceWords == Split(Lower(reference_text))

HelloHowAreYou == <<"h","e","l","l","o"," ","h","o","w"," ","a","r","e"," ","y","o","u">>
HowAreYou == <<"h","o","w"," ","a","r","e"," ","y","o","u">>
Hello == <<"h","e","l","l","o">>

\* C1: for the transcript "hello how are you" in English the reference is "how are
\* you" and the mistakes flag the word "hello" as an extra_word with no correct word.
C1_ScenarioA ==
    (Classified /\ language = "en" /\ recognized_text = HelloHowAreYou) =>
        /\ reference_text = HowAreYou
        /\ \E k \in DOMAIN mistakes :
              /\ mistakes[k].word = Hello
              /\ mistakes[k].type = "extra_word"
              /\ mistakes[k].correct = <<>>

\* C2: the score calculate_score returns lies in [0, 100], and is 0 whenever the
\* reference text is empty.
C2_ScoreBounds ==
    pc = "return" =>
        /\ score[2] > 0
        /\ 0 <= score[1]
        /\ score[1] <= 100 * score[2]
        /\ reference_text = <<>> => score[1] = 0

C2_Witness ==
    /\ pc = "return"
    /\ reference_text = <<>>
    /\ recognized_text # <<>>
    /\ Len(mistakes) >= 20
    /\ score[1] = 0

\* C3: the opcodes come in increasing order of i1 and j1 and their ranges partition
\* the indices of both word sequences: every index lies in exactly one opcode; and
\* detect_mistakes visits every recognized word exactly once, as a mistake or as a
\* word of an equal span.
C3_OpcodesPartition ==
    Classified =>
        LET rw == Split(Lower(recognized_text))
            fw == Split(Lower(reference_text))
            n == Len(opcodes)
            InA(k, i) == opcodes[k].i1 <= i /\ i < opcodes[k].i2
            InB(k, j) == opcodes[k].j1 <= j /\ j < opcodes[k].j2
        IN  /\ \A k \in 1..n :
                  /\ 0 <= opcodes[k].i1 /\ opcodes[k].i1 <= opcodes[k].i2
                  /\ opcodes[k].i2 <= Len(rw)
                  /\ 0 <= opcodes[k].j1 /\ opcodes[k].j1 <= opcodes[k].j2
                  /\ opcodes[k].j2 <= Len(fw)
            /\ \A k \in 1..(n - 1) :
                  /\ opcodes[k].i1 <= opcodes[k + 1].i1
                  /\ opcodes[k].j1 <= opcodes[k + 1].j1
                  /\ opcodes[k].i1 < opcodes[k + 1].i1 \/ opcodes[k].j1 < opcodes[k + 1].j1
            /\ \A i \in 0..(Len(rw) - 1) :
                  Cardinality({k \in 1..n : InA(k, i)}) = 1
            /\ \A j \in 0..(Len(fw) - 1) :
                  Cardinality({k \in 1..n : InB(k, j)}) = 1
            /\ \A i \in 0..(Len(rw) - 1) :
                  Cardinality({k \in DOMAIN mistakes : mistakes[k].position = i})
                  + Cardinality({k \in 1..n : opcodes[k].tag = "equal" /\ InA(k, i)}) = 1

C3_Witness ==
    /\ pc = "generate_feedback"
    /\ Len(opcodes) >= 3
    /\ \E k \in DOMAIN opcodes : opcodes[k].tag = "replace"
    /\ \E k \in DOMAIN opcodes : opcodes[k].tag = "delete"

\* C4: get_reference_text returns the first phrase of the language's list (the
\* English list for an unknown language) whose ratio against the lowercased
\* recognized words is above 0.7, and the recognized text unchanged when there is none.
C4_FirstPhraseAboveThreshold ==
    pc = "detect_mistakes" =>
        LET phrases == IF language \in DOMAIN COMMON_PHRASES
                       THEN COMMON_PHRASES[language] ELSE COMMON_PHRASES["en"]
            above(k) == LET r == Ratio(RecognizedWords, Split(phrases[k]))
                        IN  r[1] * 10 > 7 * r[2]
            hits == {k \in DOMAIN phrases : above(k)}
        IN  IF hits = {} THEN reference_text = recognized_text
            ELSE \E k \in hits :
                    /\ \A h \in hits : k <= h
                    /\ reference_text = phrases[k]

C4_Witness ==
    /\ pc = "detect_mistakes"
    /\ language = "xx"
    /\ recognized_text = HelloHowAreYou
    /\ reference_text = HowAreYou

\* C5: when the recognized and the reference text are the same non-empty string,
\* there is no mistake, the feedback is the praise line and the first 2 tips of the
\* language, and the score is 100, whatever the language and the phonemizer do.
C5_IdenticalTexts ==
    (recognized_text = reference_text /\ recognized_text # <<>>) =>
        LET tips == IF language \in DOMAIN LANGUAGE_TIPS
                    THEN LANGUAGE_TIPS[language] ELSE LANGUAGE_TIPS["en"]
        IN  /\ pc \in {"generate_feedback", "calculate_score", "return"} => mistakes = <<>>
            /\ pc \in {"calculate_score", "return"} =>
                  /\ Len(feedback) = 3
                  /\ feedback[1].fmt = PRAISE
                  /\ feedback[2].fmt = tips[1]
                  /\ feedback[3].fmt = tips[2]
            /\ pc = "return" => score[2] > 0 /\ score[1] = 100 * score[2]

C5_Witness ==
    /\ pc = "return"
    /\ recognized_text = reference_text
    /\ Len(RecognizedWords) >= 2
    /\ language = "ko"
    /\ recognized_phonemes.status = "ok"
    /\ reference_phonemes.status = "failed"
    /\ score = <<100 * score[2], score[2]>>
    /\ Len(feedback) = 3

\* C6: when a phonemize() call fails, detect_mistakes returns the mistakes and the
\* corrected text it built from the opcodes, no mistake is a pronunciation mistake,
\* and the analysis ends with the success result.
PhonemizerFailed ==
    recognized_phonemes.status = "failed" \/ reference_phonemes.status = "failed"

C6_PhonemizerFailure ==
    PhonemizerFailed =>
        LET rw == Split(Lower(recognized_text))
            fw == Split(Lower(reference_text))
            built == WalkOpcodes(GetOpcodes(rw, fw),
                                 rw, fw, <<>>, <<>>)
        IN  /\ pc \in {"generate_feedback", "calculate_score", "return", "done"}
            /\ mistakes = built[1]
            /\ corrected_text = Join(built[2])
            /\ \A k \in DOMAIN mistakes : mistakes[k].type # "pronunciation"
            /\ pc = "done" =>
                  /\ DOMAIN result = SuccessFields
                  /\ result.mistakes = mistakes
                  /\ result.corrected_text = corrected_text

C6_Witness ==
    /\ pc = "done"
    /\ recognized_phonemes.status = "ok"
    /\ reference_phonemes.status = "failed"
    /\ Len(mistakes) >= 2
    /\ DOMAIN result = SuccessFields

\* C7: analyze_pronunciation returns either the success result, or a failure result
\* that has the fields error, message, type and timestamp.
C7_OneOfTwoShapes ==
    pc = "done" =>
        \/ DOMAIN result = SuccessFields
        \/ /\ FailureFields \subseteq DOMAIN result
           /\ DOMAIN result \cap SuccessFields = {}

Count(type) == Cardinality({k \in DOMAIN mistakes : mistakes[k].type = type})
Weight == 3 * Count("pronunciation") + 2 * Count("incorrect_word") + Count("extra_word")

\* C8: for a non-empty reference the score is max(0, base - min(penalty, 40)), the
\* penalty being 3 per pronunciation, 2 per incorrect_word and 1 per extra_word
\* mistake: 14 incorrect_word mistakes cost 28, and weights of 40 or more cost 40.
C8_PenaltyCap ==
    (pc = "return" /\ reference_text # <<>>) =>
        LET r == Ratio(Lower(recognized_text), Lower(reference_text))
            less(x) == IF 100 * r[1] - x * r[2] > 0 THEN 100 * r[1] - x * r[2] ELSE 0
        IN  /\ score[2] = r[2]
            /\ Weight < 40 => score[1] = less(Weight)
            /\ Weight >= 40 => score[1] = less(40)
            /\ (Count("incorrect_word") = 14 /\ Len(mistakes) = 14) => score[1] = less(28)

C8_Witness ==
    /\ pc = "return"
    /\ Count("incorrect_word") = 21
    /\ Len(mistakes) = 21
    /\ recognized_text = reference_text
    /\ score = <<60 * score[2], score[2]>>
    /\ score[2] > 0

\* C9: the escalation changes the type of every incorrect_word mistake to
\* pronunciation when the language is supported, both phonemize() calls return and
\* the phoneme ratio is below 0.85, and of no mistake otherwise; words, correct
\* words, positions, the order and the corrected text never change.
C9_Escalation ==
    (pc \in {"generate_feedback", "calculate_score", "return"}) =>
        LET rw == Split(Lower(recognized_text))
            fw == Split(Lower(reference_text))
            built == WalkOpcodes(opcodes, rw, fw, <<>>, <<>>)
            r == Ratio(Split(recognized_phonemes.out), Split(reference_phonemes.out))
            escalates == /\ language \in SUPPORTED_LANGUAGES
                         /\ recognized_phonemes.status = "ok"
                         /\ reference_phonemes.status = "ok"
                         /\ r[1] * 100 < 85 * r[2]
        IN  /\ Len(mistakes) = Len(built[1])
            /\ corrected_text = Join(built[2])
            /\ \A k \in DOMAIN mistakes :
                  /\ mistakes[k].word = built[1][k].word
                  /\ mistakes[k].correct = built[1][k].correct
                  /\ mistakes[k].position = built[1][k].position
                  /\ mistakes[k].type =
                        IF escalates /\ built[1][k].type = "incorrect_word"
                        THEN "pronunciation" ELSE built[1][k].type

C9_Witness ==
    /\ pc = "generate_feedback"
    /\ language = "de"
    /\ Len(mistakes) >= 2
    /\ \A k \in DOMAIN mistakes : mistakes[k].type = "pronunciation"
    /\ mistakes[1].correct # mistakes[2].correct

\* C10: corrected_text has one word per recognized word: its own word in an equal
\* span, else the reference word at j1 of its span, or "[silence]" when j1 is past
\* the reference; a reference word found only in insert spans is not in it; and the
\* positions of the mistakes increase strictly inside the recognized words.
C10_CorrectedWords ==
    (pc \in {"generate_feedback", "calculate_score", "return"}) =>
        LET rw == Split(Lower(recognized_text))
            fw == Split(Lower(reference_text))
            cw == Split(corrected_text)
            OpOf(i) == opcodes[CHOOSE k \in DOMAIN opcodes :
                                  opcodes[k].i1 <= i /\ i < opcodes[k].i2]
            InInsert(j) == \E k \in DOMAIN opcodes :
                              /\ opcodes[k].tag = "insert"
                              /\ opcodes[k].j1 <= j /\ j < opcodes[k].j2
            OnlyInserted(w) == \A j \in 0..(Len(fw) - 1) :
                                  fw[j + 1] = w => InInsert(j)
        IN  /\ Len(cw) = Len(rw)
            /\ \A i \in 0..(Len(rw) - 1) :
                  cw[i + 1] = IF OpOf(i).tag = "equal" THEN rw[i + 1]
                              ELSE IF OpOf(i).j1 < Len(fw)
                              THEN fw[OpOf(i).j1 + 1]
                              ELSE SILENCE
            /\ \A j \in 0..(Len(fw) - 1) :
                  OnlyInserted(fw[j + 1]) =>
                      \A i \in DOMAIN cw : cw[i] # fw[j + 1]
            /\ \A k \in DOMAIN mistakes :
                  0 <= mistakes[k].position /\ mistakes[k].position < Len(rw)
            /\ \A k \in 1..(Len(mistakes) - 1) :
                  mistakes[k].position < mistakes[k + 1].position

C10_Witness ==
    /\ pc = "generate_feedback"
    /\ corrected_text # reference_text
    /\ \E k \in DOMAIN opcodes : opcodes[k].tag = "insert"
    /\ \E k \in DOMAIN opcodes :
          /\ opcodes[k].tag = "delete"
          /\ opcodes[k].i2 - opcodes[k].i1 >= 2
          /\ opcodes[k].j1 = Len(ReferenceWords)

=============================================================================
